---- MODULE Spec2Model ----
(***************************************************************************)
(* A model of src/formats/vtt.rs of subparse: the VttFile adapter          *)
(* (create, get_subtitle_entries, update_subtitle_entries, to_data, parse).*)
(* Text and bytes are sequences of one-character strings.                  *)
(***************************************************************************)
EXTENDS Integers, Sequences, FiniteSets, TLC

VARIABLES
    v,      \* VttFile.v: the cues of the file (vtt.rs:39-41)
    op,     \* the last operation that ran ("none" before create)
    arg,    \* the argument that operation was called with
    ret,    \* what that operation returned (Ok(val) or a panic)
    fresh   \* TRUE while v is as create built it (no update applied yet)

vars == <<v, op, arg, ret, fresh>>

(***************************************************************************)
(* Bounds and input sets                                                   *)
(***************************************************************************)
MaxCues == 2

NL == "\n"
CR == "\r"

line1 == <<"l", "i", "n", "e", "1">>
line2 == <<"l", "i", "n", "e", "2">>

\* Texts handed to create: empty, single line, only a line break, trailing
\* blank line, interior blank line.
CreateTexts ==
    { <<>>, line1, <<NL>>, line1 \o <<NL, NL>>, line1 \o <<NL, NL>> \o line2 }

\* Texts carried by the entries a caller builds for update_subtitle_entries
\* (the texts get_subtitle_entries returns are passed back as well).
EntryTexts == { line2 \o <<CR, NL>> \o line1 }

TimePoint(ms) == ms
TimeSpan(s, e) == [start |-> TimePoint(s), end |-> TimePoint(e)]

TimeSpans == { TimeSpan(1500, 3700), TimeSpan(4500, 8700) }

\* Option<String>
None == [some |-> FALSE, text |-> <<>>]
Some(t) == [some |-> TRUE, text |-> t]

\* Result of a call
Ok(val) == [kind |-> "Ok", val |-> val]
Panic == [kind |-> "Panic", val |-> <<>>]

SeqsUpTo(S, n) == UNION { [1..k -> S] : k \in 0..n }

\* The input of create_vtt_test (vtt.rs:139-148)
TestPairs ==
    << <<TimeSpan(1500, 3700), line1>>, <<TimeSpan(4500, 8700), line2>> >>

Pairs == TimeSpans \X CreateTexts
PairSeqs == SeqsUpTo(Pairs, MaxCues) \cup {TestPairs}

(***************************************************************************)
(* Helpers of the standard library, as the code uses them                  *)
(***************************************************************************)
\* A line that was terminated by "\n" loses one trailing "\r".
StripCR(l) ==
    IF Len(l) > 0 /\ l[Len(l)] = CR THEN SubSeq(l, 1, Len(l) - 1) ELSE l

RECURSIVE lines_from(_, _)
lines_from(s, cur) ==
    IF s = <<>>
    THEN IF cur = <<>> THEN <<>> ELSE <<cur>>
    ELSE IF Head(s) = NL
         THEN <<StripCR(cur)>> \o lines_from(Tail(s), <<>>)
         ELSE lines_from(Tail(s), Append(cur, Head(s)))

\* str::lines(): split at "\n" (or "\r\n"); a final empty piece is no line.
lines(s) == lines_from(s, <<>>)

RECURSIVE join(_, _)
\* [String]::join(sep) / Itertools::join(sep)
join(ls, sep) ==
    IF ls = <<>> THEN <<>>
    ELSE IF Len(ls) = 1 THEN ls[1]
    ELSE ls[1] \o sep \o join(Tail(ls), sep)

RECURSIVE concat(_)
\* Iterator<String>::collect::<String>()
concat(ss) == IF ss = <<>> THEN <<>> ELSE Head(ss) \o concat(Tail(ss))

DigitChar(d) == <<"0", "1", "2", "3", "4", "5", "6", "7", "8", "9">>[d + 1]

RECURSIVE ToDec(_)
\* Display of a non-negative integer
ToDec(n) == IF n < 10 THEN <<DigitChar(n)>> ELSE ToDec(n \div 10) \o <<DigitChar(n % 10)>>

RECURSIVE Zeros(_)
Zeros(k) == IF k <= 0 THEN <<>> ELSE <<"0">> \o Zeros(k - 1)

\* format!("{:0w}", n) for n >= 0: at least w digits, zero-padded on the left
Pad(n, w) == Zeros(w - Len(ToDec(n))) \o ToDec(n)

(***************************************************************************)
(* crate::timetypes and crate::SubtitleEntry (used by vtt.rs)              *)
(***************************************************************************)
\* TimePoint::hours(): whole hours, unbounded above
hours(t) == t \div 3600000
\* TimePoint::mins_comp(): minutes within the current hour
mins_comp(t) == (t \div 60000) % 60
\* TimePoint::secs_comp(): seconds within the current minute
secs_comp(t) == (t \div 1000) % 60
\* TimePoint::msecs_comp(): milliseconds within the current second
msecs_comp(t) == t % 1000

\* SubtitleEntry::new(timespan, line): the text is always present
SubtitleEntry_new(timespan, line) == [timespan |-> timespan, line |-> Some(line)]

\* A SubtitleEntry as a caller may build it: the text may be absent.
Entries ==
    { [timespan |-> ts, line |-> l] :
        ts \in TimeSpans, l \in {None} \cup { Some(t) : t \in EntryTexts } }
EntrySeqs == SeqsUpTo(Entries, MaxCues)

(***************************************************************************)
(* VttFile                                                                 *)
(***************************************************************************)
VttLine(timespan, index, texts) ==
    [timespan |-> timespan, index |-> index, texts |-> texts]

\* fn parse_file(i: &str) -> Result<VttFile> { unimplemented!() }
parse_file(i) == Panic

\* VttFile::parse(s): parse_file panics before any Result is built
parse(s) == parse_file(s)

\* A variant that joins the text lines with no separator.
get_subtitle_entries_unseparated(self_v) ==
    Ok([i \in 1..Len(self_v) |->
          SubtitleEntry_new(self_v[i].timespan, join(self_v[i].texts, <<>>))])

get_subtitle_entries(self_v) ==
    Ok([i \in 1..Len(self_v) |->
          SubtitleEntry_new(self_v[i].timespan, join(self_v[i].texts, <<NL>>))])

Min(a, b) == IF a < b THEN a ELSE b

\* A variant without the assertion: zip() stops at the shorter sequence, so a
\* prefix is applied in place and the call succeeds.
update_without_assert(self_v, new_subtitle_entries) ==
    [v |-> [i \in 1..Len(self_v) |->
              IF i <= Min(Len(self_v), Len(new_subtitle_entries))
              THEN VttLine(new_subtitle_entries[i].timespan,
                           self_v[i].index,
                           IF new_subtitle_entries[i].line.some
                           THEN lines(new_subtitle_entries[i].line.text)
                           ELSE self_v[i].texts)
              ELSE self_v[i]],
     ret |-> Ok(<<>>)]

\* A variant that treats an absent text as an empty one.
update_clearing_absent_text(self_v, new_subtitle_entries) ==
    IF Len(self_v) # Len(new_subtitle_entries)
    THEN [v |-> self_v, ret |-> Panic]
    ELSE [v |-> [i \in 1..Len(self_v) |->
                   VttLine(new_subtitle_entries[i].timespan,
                           self_v[i].index,
                           lines(new_subtitle_entries[i].line.text))],
          ret |-> Ok(<<>>)]

\* A variant that rebuilds the cues from the entries and renumbers them by
\* position counted from 0.
update_renumbering(self_v, new_subtitle_entries) ==
    IF Len(self_v) # Len(new_subtitle_entries)
    THEN [v |-> self_v, ret |-> Panic]
    ELSE [v |-> [i \in 1..Len(self_v) |->
                   VttLine(new_subtitle_entries[i].timespan,
                           i - 1,
                           IF new_subtitle_entries[i].line.some
                           THEN lines(new_subtitle_entries[i].line.text)
                           ELSE self_v[i].texts)],
          ret |-> Ok(<<>>)]

\* The outcome of update_subtitle_entries: the cues afterwards and the return.
update_subtitle_entries(self_v, new_subtitle_entries) ==
    IF Len(self_v) # Len(new_subtitle_entries)
    THEN [v |-> self_v, ret |-> Panic]
    ELSE [v |-> [i \in 1..Len(self_v) |->
                   VttLine(new_subtitle_entries[i].timespan,
                           self_v[i].index,
                           IF new_subtitle_entries[i].line.some
                           THEN lines(new_subtitle_entries[i].line.text)
                           ELSE self_v[i].texts)],
          ret |-> Ok(<<>>)]

\* A variant that pads the milliseconds to two digits only.
timepoint_to_str_short_msecs(t) ==
    Pad(hours(t), 2) \o <<":">> \o Pad(mins_comp(t), 2) \o <<":">>
        \o Pad(secs_comp(t), 2) \o <<".">> \o Pad(msecs_comp(t), 2)

timepoint_to_str(t) ==
    Pad(hours(t), 2) \o <<":">> \o Pad(mins_comp(t), 2) \o <<":">>
        \o Pad(secs_comp(t), 2) \o <<".">> \o Pad(msecs_comp(t), 3)

line_to_str(line) ==
    ToDec(line.index) \o <<NL>>
        \o timepoint_to_str(line.timespan.start)
        \o <<" ", "-", "-", ">", " ">>
        \o timepoint_to_str(line.timespan.end) \o <<NL>>
        \o join(line.texts, <<NL>>) \o <<NL, NL>>

WEBVTT == <<"W", "E", "B", "V", "T", "T">>

to_data(self_v) ==
    Ok(WEBVTT \o <<NL, NL>>
         \o concat([i \in 1..Len(self_v) |-> line_to_str(self_v[i])]))

\* A variant that uses the position counted from 0 as the index.
create_zero_based(pairs) ==
    Ok([k \in 1..Len(pairs) |->
          VttLine(pairs[k][1], k - 1, lines(pairs[k][2]))])

\* VttFile::create(v): enumerate() counts from 0, the index is i + 1
create(pairs) ==
    Ok([k \in 1..Len(pairs) |->
          VttLine(pairs[k][1], (k - 1) + 1, lines(pairs[k][2]))])

(***************************************************************************)
(* The state machine: one file, built once, then read, updated, written    *)
(***************************************************************************)
Init ==
    /\ v = <<>>
    /\ op = "none"
    /\ arg = <<>>
    /\ ret = Ok(<<>>)
    /\ fresh = FALSE

\* A panic ends the program; before create there is no file to call into.
Alive == op # "none" /\ ret.kind = "Ok"

Create ==
    /\ op = "none"
    /\ \E pairs \in PairSeqs :
         LET r == create(pairs) IN
         /\ v' = r.val
         /\ arg' = pairs
         /\ ret' = [kind |-> r.kind, val |-> <<>>]
    /\ op' = "create"
    /\ fresh' = TRUE

GetSubtitleEntries ==
    /\ Alive
    /\ ret' = get_subtitle_entries(v)
    /\ op' = "get_subtitle_entries"
    /\ arg' = <<>>
    /\ UNCHANGED <<v, fresh>>

\* The caller passes entries of its own, or the ones it has just read.
UpdateSubtitleEntries ==
    /\ Alive
    /\ \E e \in EntrySeqs \cup
                (IF op = "get_subtitle_entries" THEN {ret.val} ELSE {}) :
         LET r == update_subtitle_entries(v, e) IN
         /\ v' = r.v
         /\ ret' = r.ret
         /\ arg' = e
         /\ fresh' = (fresh /\ r.ret.kind # "Ok")
    /\ op' = "update_subtitle_entries"

ToData ==
    /\ Alive
    /\ ret' = to_data(v)
    /\ op' = "to_data"
    /\ arg' = <<>>
    /\ UNCHANGED <<v, fresh>>

\* The bytes just written are parsed back.
Parse ==
    /\ Alive
    /\ op = "to_data"
    /\ arg' = ret.val
    /\ ret' = parse(ret.val)
    /\ op' = "parse"
    /\ UNCHANGED <<v, fresh>>

Next ==
    \/ Create
    \/ GetSubtitleEntries
    \/ UpdateSubtitleEntries
    \/ ToData
    \/ Parse

Spec == Init /\ [][Next]_vars

(***************************************************************************)
(* Timestamp formatting on its own: one TimePoint, formatted once          *)
(***************************************************************************)
FmtHours == {0, 1, 99, 100}
FmtMins == {0, 1, 59}
FmtSecs == {0, 1, 3, 59}
FmtMsecs == {0, 5, 500, 700, 999}

\* TimePoint::from_msecs over a grid of non-negative instants
FmtTimes ==
    { TimePoint(h * 3600000 + m * 60000 + sec * 1000 + ms) :
        h \in FmtHours, m \in FmtMins, sec \in FmtSecs, ms \in FmtMsecs }

FmtInit ==
    /\ v = <<>>
    /\ op = "none"
    /\ arg \in FmtTimes
    /\ ret = Ok(<<>>)
    /\ fresh = FALSE

Format ==
    /\ op = "none"
    /\ ret' = Ok(timepoint_to_str(arg))
    /\ op' = "timepoint_to_str"
    /\ UNCHANGED <<v, arg, fresh>>

FmtNext == Format

FmtSpec == FmtInit /\ [][FmtNext]_vars

(***************************************************************************)
(* Helpers of the properties                                               *)
(***************************************************************************)
Arrow == <<" ", "-", "-", ">", " ">>

\* The file is alive and the last call returned normally.
Returned(o) == op = o /\ ret.kind = "Ok"

RECURSIVE SplitOn(_, _, _)
\* s cut at every c, empty pieces kept: SplitOn("a,,b", ",") = a, "", b
SplitOn(s, c, cur) ==
    IF s = <<>> THEN <<cur>>
    ELSE IF Head(s) = c THEN <<cur>> \o SplitOn(Tail(s), c, <<>>)
    ELSE SplitOn(Tail(s), c, Append(cur, Head(s)))

\* The lines of a byte string that ends every line with "\n"
OutLines(bytes) ==
    LET pieces == SplitOn(bytes, NL, <<>>)
    IN  SubSeq(pieces, 1, Len(pieces) - 1)

EndsWithNL(bytes) == Len(bytes) > 0 /\ bytes[Len(bytes)] = NL

RECURSIVE EachOnItsOwnLine(_)
EachOnItsOwnLine(ls) ==
    IF ls = <<>> THEN <<>> ELSE Head(ls) \o <<NL>> \o EachOnItsOwnLine(Tail(ls))

Digits == {"0", "1", "2", "3", "4", "5", "6", "7", "8", "9"}
DigitVal(c) == CHOOSE d \in 0..9 : DigitChar(d) = c

RECURSIVE DecVal(_)
DecVal(ds) ==
    IF ds = <<>> THEN 0
    ELSE 10 * DecVal(SubSeq(ds, 1, Len(ds) - 1)) + DigitVal(ds[Len(ds)])

RECURSIVE NumDigits(_)
NumDigits(n) == IF n < 10 THEN 1 ELSE 1 + NumDigits(n \div 10)

\* "<start> --> <end>" of a cue, without its line end
TimestampLine(cue) ==
    timepoint_to_str(cue.timespan.start) \o Arrow
        \o timepoint_to_str(cue.timespan.end)

\* The serialization of create_vtt_test (vtt.rs:153)
TestExpected ==
    << "W", "E", "B", "V", "T", "T", NL, NL, "1", NL, "0", "0",
       ":", "0", "0", ":", "0", "1", ".", "5", "0", "0", " ", "-",
       "-", ">", " ", "0", "0", ":", "0", "0", ":", "0", "3", ".",
       "7", "0", "0", NL, "l", "i", "n", "e", "1", NL, NL, "2",
       NL, "0", "0", ":", "0", "0", ":", "0", "4", ".", "5", "0",
       "0", " ", "-", "-", ">", " ", "0", "0", ":", "0", "0", ":",
       "0", "8", ".", "7", "0", "0", NL, "l", "i", "n", "e", "2",
       NL, NL >>

(***************************************************************************)
(* Properties                                                              *)
(***************************************************************************)

\* C1: to_data of a file as create built it is "WEBVTT\n\n" followed, for each
\* cue in order, by its index line, its "<start> --> <end>" line, its text
\* lines each on its own line, and one empty line; and the input of
\* create_vtt_test serializes to the bytes that test expects.
C1_ToDataOfCreate ==
    (Returned("to_data") /\ fresh) =>
        /\ ret.val =
             WEBVTT \o <<NL, NL>>
               \o concat([i \in 1..Len(v) |->
                            ToDec(v[i].index) \o <<NL>>
                              \o TimestampLine(v[i]) \o <<NL>>
                              \o EachOnItsOwnLine(v[i].texts)
                              \o <<NL>>])
        /\ (v = create(TestPairs).val => ret.val = TestExpected)

\* C1, the literal scenario alone: create_vtt_test's input serializes to the
\* bytes the test expects.
C1_TestScenario ==
    (Returned("to_data") /\ fresh /\ v = create(TestPairs).val)
        => ret.val = TestExpected

\* C2: round trip. Parsing the bytes to_data wrote for a file as create built
\* it succeeds, and the entries of the parsed file carry the timespans and
\* (line-normalized) texts of the original pairs, in order.
C2_RoundTrip ==
    (op = "parse" /\ fresh) =>
        /\ ret.kind = "Ok"
        /\ get_subtitle_entries(ret.val) = get_subtitle_entries(v)

\* C3: update_subtitle_entries called with a sequence whose length differs
\* from the cue count faults, and no cue has been modified when it does.
C3_LengthMismatchFaults ==
    [][(op' = "update_subtitle_entries" /\ Len(arg') # Len(v))
         => (ret'.kind = "Panic" /\ v' = v)]_vars

C3_Witness ==
    /\ op = "update_subtitle_entries"
    /\ ret.kind = "Panic"
    /\ 0 < Len(arg)
    /\ Len(arg) < Len(v)

\* C4: a length-matching update_subtitle_entries succeeds; every cue gets its
\* entry's timespan; a cue whose entry has no text keeps its text lines, a cue
\* whose entry has a text gets the lines of that text.
C4_PerCueUpdate ==
    [][(op' = "update_subtitle_entries" /\ Len(arg') = Len(v))
         => /\ ret'.kind = "Ok"
            /\ Len(v') = Len(v)
            /\ \A i \in 1..Len(v) :
                 /\ v'[i].timespan = arg'[i].timespan
                 /\ ~arg'[i].line.some => v'[i].texts = v[i].texts
                 /\ arg'[i].line.some
                      => v'[i].texts = lines(arg'[i].line.text)]_vars

C4_Witness ==
    /\ Returned("update_subtitle_entries")
    /\ Len(v) = 2
    /\ ~arg[1].line.some
    /\ arg[2].line.some
    /\ v[1].texts = <<line1, <<>>, line2>>
    /\ v[1].timespan = TimeSpan(4500, 8700)
    /\ v[2].texts = <<line2, line1>>

\* C5: create over N pairs succeeds and builds N cues; cue k has index k, the
\* k-th timespan and the lines of the k-th text, whatever the pairs are.
C5_CreateAssignsIndices ==
    op = "create" =>
        /\ ret.kind = "Ok"
        /\ Len(v) = Len(arg)
        /\ \A k \in 1..Len(arg) :
             /\ v[k].index = k
             /\ v[k].timespan = arg[k][1]
             /\ v[k].texts = lines(arg[k][2])

C5_Witness ==
    /\ op = "create"
    /\ Len(arg) = 2
    /\ arg[1][1].start > arg[2][1].start
    /\ arg[1][2] = <<>>
    /\ v[2].index = 2

\* C6: a non-negative TimePoint of m milliseconds is written HH:MM:SS.mmm:
\* the hours are m div 3600000 in at least 2 digits (more when they need
\* more), minutes and seconds are in 00..59 in exactly 2 digits, the
\* milliseconds in 000..999 in exactly 3, and the fields add up to m.
C6_TimestampFormat ==
    op = "timepoint_to_str" =>
        LET str == ret.val
            h == arg \div 3600000
            hw == IF NumDigits(h) < 2 THEN 2 ELSE NumDigits(h)
        IN  /\ Len(str) = hw + 10
            /\ str[hw + 1] = ":"
            /\ str[hw + 4] = ":"
            /\ str[hw + 7] = "."
            /\ \A j \in (1..Len(str)) \ {hw + 1, hw + 4, hw + 7} :
                 str[j] \in Digits
            /\ LET H == DecVal(SubSeq(str, 1, hw))
                   M == DecVal(SubSeq(str, hw + 2, hw + 3))
                   S == DecVal(SubSeq(str, hw + 5, hw + 6))
                   MS == DecVal(SubSeq(str, hw + 8, hw + 10))
               IN  /\ H = h
                   /\ M \in 0..59
                   /\ S \in 0..59
                   /\ MS \in 0..999
                   /\ H * 3600000 + M * 60000 + S * 1000 + MS = arg
            /\ arg = 1500 =>
                 str = <<"0", "0", ":", "0", "0", ":", "0", "1", ".", "5", "0", "0">>
            /\ arg = 3700 =>
                 str = <<"0", "0", ":", "0", "0", ":", "0", "3", ".", "7", "0", "0">>
            /\ arg = 3661500 =>
                 str = <<"0", "1", ":", "0", "1", ":", "0", "1", ".", "5", "0", "0">>

C6_Witness ==
    /\ op = "timepoint_to_str"
    /\ arg = 100 * 3600000 + 59 * 60000 + 59 * 1000 + 5
    /\ Len(ret.val) = 13

\* C7: in the bytes to_data writes, every cue block (index line, timestamp
\* line, one or more text lines) is followed by exactly one blank line, the
\* last one included: the blank lines of the output are the one after the
\* header and one closing each cue, and each cue's block holds its index
\* line, its timestamp line and at least one text line before its blank line.
C7_OneBlankLineAfterEachCue ==
    Returned("to_data") =>
        LET ls == OutLines(ret.val)
            blanks == { j \in 1..Len(ls) : ls[j] = <<>> }
            blank(i) == CHOOSE b \in blanks :
                           Cardinality({ x \in blanks : x < b }) = i
        IN  /\ EndsWithNL(ret.val)
            /\ Cardinality(blanks) = 1 + Len(v)
            /\ Len(ls) \in blanks
            /\ \A i \in 1..Len(v) :
                 /\ ls[blank(i - 1) + 1] = ToDec(v[i].index)
                 /\ ls[blank(i - 1) + 2] = TimestampLine(v[i])
                 /\ blank(i) >= blank(i - 1) + 4

\* C8: get_subtitle_entries succeeds, leaves the file as it was, and returns
\* one entry per cue in order: cue i's timespan and a present text, the cue's
\* text lines joined by "\n" (the empty string for a cue without text lines).
C8_GetSubtitleEntries ==
    [][op' = "get_subtitle_entries"
         => /\ ret'.kind = "Ok"
            /\ v' = v
            /\ Len(ret'.val) = Len(v)
            /\ \A i \in 1..Len(v) :
                 /\ ret'.val[i].timespan = v[i].timespan
                 /\ ret'.val[i].line.some
                 /\ IF v[i].texts = <<>>
                    THEN ret'.val[i].line.text = <<>>
                    ELSE SplitOn(ret'.val[i].line.text, NL, <<>>)
                           = v[i].texts]_vars

C8_Witness ==
    /\ Returned("get_subtitle_entries")
    /\ Len(v) = 2
    /\ v[1].texts = <<>>
    /\ v[2].texts = <<line1, <<>>, line2>>
    /\ ret.val[1].line = Some(<<>>)
    /\ ret.val[2].line = Some(line1 \o <<NL, NL>> \o line2)

\* C9: a successful update_subtitle_entries changes neither the number of
\* cues nor any cue's index: the indices stay 1..N in position order.
C9_UpdateKeepsCountAndIndices ==
    [][(op' = "update_subtitle_entries" /\ ret'.kind = "Ok")
         => /\ Len(v') = Len(v)
            /\ \A i \in 1..Len(v) :
                 /\ v'[i].index = v[i].index
                 /\ v'[i].index = i]_vars

C9_Witness ==
    /\ Returned("update_subtitle_entries")
    /\ ~fresh
    /\ Len(v) = 2
    /\ v[1].index = 1
    /\ v[2].index = 2
    /\ v[2].texts = <<line2, line1>>

\* C10: read-then-write is the identity. On a file as create built it,
\* update_subtitle_entries called with exactly what get_subtitle_entries
\* returned leaves every cue's timespan and text lines as they were, and
\* to_data writes the same bytes as before.
C10_ReadThenWriteIsIdentity ==
    [][(fresh /\ Returned("get_subtitle_entries")
          /\ op' = "update_subtitle_entries" /\ arg' = ret.val)
         => /\ ret'.kind = "Ok"
            /\ v' = v
            /\ to_data(v') = to_data(v)]_vars

====
